---- MODULE Spec2Model ----
(***************************************************************************)
(* Cycle-accurate model of the SPI accelerometer emulator AccelCore        *)
(* (src/periphs/accel.py).  One step of the model is one system clock      *)
(* tick: every register of the core is updated from the values the         *)
(* registers and the pads had during the tick, as the synchronous          *)
(* statements of the source prescribe.  The host (SPI master and the CPU   *)
(* side of the CSR interface) drives the pads between ticks.               *)
(*                                                                         *)
(*   d     the registers of the core                                       *)
(*   pads  the lines the host drives: csn, sck, mosi and the CSR storages  *)
(*         soc2ip_we (we), soc2ip_dx/dy/dz (smp) and soc2ip_st (st)        *)
(*   h     the host's own bookkeeping: the bytes it is sending (plan),     *)
(*         its position in them, the bytes it sampled from miso (got)      *)
(***************************************************************************)
EXTENDS Integers, Sequences, FiniteSets, TLC

VARIABLES d, pads, h

vars == <<d, pads, h>>

----------------------------------------------------------------------------
(* Program constants *)

\* FIFO_DEPTH = 170
FIFO_DEPTH == 170

\* n = 10 system clock cycles per sck toggle, the host timing of the test benches
n == 10

\* last register address of a burst read (SHIFT_OUT_DONE: bus_addr < 0x2D)
LAST_REG == 45

\* command bytes
CMD_WRITE == 10
CMD_READ == 11
CMD_FIFO == 13

\* SOFT_RESET address 0x1F and its key 0x52
SOFT_RESET == 31
RESET_KEY == 82

\* addresses of FIFO_CONTROL and FIFO_SAMPLES among the stored registers
FIFO_CONTROL == 40
FIFO_SAMPLES == 41

\* addresses of INTMAP1, INTMAP2, FILTER_CTL and POWER_CTL
INTMAP1 == 42
INTMAP2 == 43
FILTER_CTL == 44
POWER_CTL == 45

\* ODRController(freq=8000, fbase=400): system clock and base frequency in Hz
freq == 8000
fbase == 400

\* the registers the write path of RegisterArray stores: SOFT_RESET, THRESH_ACT_L .. POWER_CTL
StoredRegs == 31..45

\* the read/write configuration registers 0x20..0x2D
RWRegs == 32..45

Byte == 0..255

----------------------------------------------------------------------------
(* Bit helpers *)

Bit(v, k) == (v \div (2^k)) % 2

RECURSIVE BitsFor(_)
\* migen bits_for(n): the number of bits needed to hold n
BitsFor(m) == IF m <= 1 THEN 1 ELSE 1 + BitsFor(m \div 2)

\* EntryByte with the two bytes of each axis swapped
EntryByteSwapped(e, k) == (e[(k \div 2) + 1] \div (IF k % 2 = 0 THEN 256 ELSE 1)) % 256

\* byte k (0..5) of a 48-bit FIFO entry held as <<x, y, z>>, 16 bits each:
\* fifo_entry[8k : 8k+8]
EntryByte(e, k) == (e[(k \div 2) + 1] \div (IF k % 2 = 0 THEN 1 ELSE 256)) % 256

----------------------------------------------------------------------------
(* EdgeDetector and the sck/csn/mosi samplers: a two-stage shift register *)

\* EdgeNext with a second stage that keeps its value
EdgeNextStuck(cnt, i) == (cnt \div 2) * 2 + i

EdgeNext(cnt, i) == (cnt % 2) * 2 + i

Rising(cnt) == cnt = 1

Falling(cnt) == cnt = 2

sck_r == Rising(d.sck_cnt)
sck_f == Falling(d.sck_cnt)
csn_r == Rising(d.csn_cnt)
csn_f == Falling(d.csn_cnt)
mosi_s == d.mosi_cnt \div 2

----------------------------------------------------------------------------
(* RegisterArray *)

\* reset values of the stored registers
PowerOn == [a \in StoredRegs |-> CASE a = 41 -> 128 [] a = 44 -> 19 [] OTHER -> 0]

\* fifo.level of SyncFIFOBuffered: the inner level plus the output stage
FifoLevel == Len(d.q) + d.readable

\* fifo_axis_level = fifo.level * 3, a Signal(max=512)
fifo_axis_level == (FifoLevel * 3) % 512

\* fifo_samples = {FIFO_CONTROL[3], FIFO_SAMPLES}
fifo_samples == d.regs[FIFO_SAMPLES] + 256 * Bit(d.regs[FIFO_CONTROL], 3)

\* RegRead with the read of SOFT_RESET (address 31) enabled
RegReadSoftReset(a) ==
    CASE a = 0 -> 173
      [] a = 1 -> 29
      [] a = 2 -> 242
      [] a = 3 -> 1
      [] a = 11 -> d.STATUS
      [] a = 12 -> fifo_axis_level % 256
      [] a = 13 -> fifo_axis_level \div 256
      [] a \in StoredRegs -> d.regs[a]
      [] OTHER -> 0

\* the value a read strobe at address a latches into dr
RegRead(a) ==
    CASE a = 0 -> 173
      [] a = 1 -> 29
      [] a = 2 -> 242
      [] a = 3 -> 1
      [] a \in 8..10 -> 0
      [] a = 11 -> d.STATUS
      [] a = 12 -> fifo_axis_level % 256
      [] a = 13 -> fifo_axis_level \div 256
      [] a \in 14..21 -> 0
      [] a \in RWRegs -> d.regs[a]
      [] OTHER -> 0

\* RegWrite with POWER_CTL (45) stored into FILTER_CTL (44)
RegWriteWrongSlot(regs, a, dw) ==
    IF a \in StoredRegs THEN [regs EXCEPT ![IF a = 45 THEN 44 ELSE a] = dw] ELSE regs

\* the stored registers after a write strobe of dw at address a
RegWrite(regs, a, dw) == IF a \in StoredRegs THEN [regs EXCEPT ![a] = dw] ELSE regs

\* RegsNext with a read strobe that clears the register it reads
RegsNextReadClears ==
    IF d.reg_reset = 1 THEN PowerOn
    ELSE IF d.bus_r = 1 THEN RegWrite(d.regs, d.bus_addr, 0)
    ELSE IF d.bus_w = 1 THEN RegWrite(d.regs, d.bus_addr, d.bus_dw)
    ELSE d.regs

\* RegisterArray.sync under its ResetInserter: read has priority over write,
\* reg.reset overrides both
RegsNext ==
    IF d.reg_reset = 1 THEN PowerOn
    ELSE IF d.bus_r = 1 THEN d.regs
    ELSE IF d.bus_w = 1 THEN RegWrite(d.regs, d.bus_addr, d.bus_dw)
    ELSE d.regs

DrNext ==
    IF d.reg_reset = 1 THEN 0
    ELSE IF d.bus_r = 1 THEN RegRead(d.bus_addr)
    ELSE d.dr

\* RegResetNext with a reset request for every nonzero SOFT_RESET value
RegResetNextAny == IF d.regs[SOFT_RESET] # 0 THEN 1 ELSE 0

\* soft reset request: reg.reset follows SOFT_RESET == 0x52
RegResetNext == IF d.regs[SOFT_RESET] = RESET_KEY THEN 1 ELSE 0

\* sys_rst is set when reg.reset is asserted; the core never clears it
SysRstNext == IF d.reg_reset = 1 THEN 1 ELSE d.sys_rst

----------------------------------------------------------------------------
(* SyncFIFOBuffered(width=48, depth=FIFO_DEPTH): a synchronous FIFO (q)  *)
(* followed by a one-entry output stage (dout, readable)                 *)

Writable == Len(d.q) # FIFO_DEPTH

\* the inner FIFO is read when it holds an entry and the output stage is
\* empty or is being read
InnerRe == Len(d.q) # 0 /\ (d.readable = 0 \/ d.fifo_re = 1)

QNext ==
    LET rd == IF InnerRe THEN Tail(d.q) ELSE d.q
    IN  IF d.fifo_we = 1 /\ Writable THEN Append(rd, d.fifo_din) ELSE rd

DoutNext == IF InnerRe THEN Head(d.q) ELSE d.dout

ReadableNext == IF InnerRe THEN 1 ELSE IF d.fifo_re = 1 THEN 0 ELSE d.readable

----------------------------------------------------------------------------
(* fsm: the command/register protocol engine.  ResetInserter with        *)
(* fsm.reset = pads.csn: while csn is high the state and every register  *)
(* the fsm assigns return to their reset value, except the reset_less    *)
(* fifo_entry, fifo_byte_sent and fifo_entry_read_cnt                    *)

FsmNext ==
    CASE d.state = "IDLE" ->
            IF pads.csn = 0 THEN "CMD_PHASE" ELSE "IDLE"
      [] d.state = "CMD_PHASE" ->
            IF d.rxc = 1 THEN "CMD_DECODE" ELSE "CMD_PHASE"
      [] d.state = "CMD_DECODE" ->
            IF d.str_cmd = CMD_WRITE THEN "ADDR_PHASE"
            ELSE IF d.str_cmd = CMD_READ THEN "ADDR_PHASE"
            ELSE IF d.str_cmd = CMD_FIFO THEN "READ_FIFO"
            ELSE "IDLE"
      [] d.state = "ADDR_PHASE" ->
            IF d.rxc = 1 THEN "DETERMINE_REG_ACCESS" ELSE "ADDR_PHASE"
      [] d.state = "DETERMINE_REG_ACCESS" ->
            IF d.str_cmd = CMD_WRITE THEN "REG_VALUE_SHIFTIN"
            ELSE IF d.str_cmd = CMD_READ THEN "LOAD_SHIFT_OUT_DATA"
            ELSE "IDLE"
      [] d.state = "REG_VALUE_SHIFTIN" ->
            IF d.rxc = 1 THEN "REG_WRITE_STROBE" ELSE "REG_VALUE_SHIFTIN"
      [] d.state = "REG_WRITE_STROBE" -> "REG_WRITE_VALUE"
      [] d.state = "REG_WRITE_VALUE" -> "REG_WRITE_NEXT"
      [] d.state = "REG_WRITE_NEXT" ->
            IF csn_r THEN "IDLE"
            ELSE IF d.rxc = 1 THEN "REG_WRITE_STROBE"
            ELSE "REG_WRITE_NEXT"
      [] d.state = "LOAD_SHIFT_OUT_DATA" -> "LOAD_TX_BUF"
      [] d.state = "LOAD_TX_BUF" -> "SHIFTING_OUT"
      [] d.state = "SHIFTING_OUT" ->
            IF d.rxc = 1 THEN "SHIFT_OUT_DONE" ELSE "SHIFTING_OUT"
      [] d.state = "SHIFT_OUT_DONE" ->
            IF csn_r THEN "IDLE"
            ELSE IF d.bus_addr < LAST_REG THEN "LOAD_SHIFT_OUT_DATA"
            ELSE "IDLE"
      [] d.state = "READ_FIFO" ->
            IF d.fifo_byte_sent = 0
            THEN IF d.readable = 1 THEN "READ_FIFO_ENTRY_STROBE" ELSE "READ_FIFO"
            ELSE "PREPARE_SHIFT_BYTE_OUT"
      [] d.state = "READ_FIFO_ENTRY_STROBE" -> "READ_FIFO_ENTRY"
      [] d.state = "READ_FIFO_ENTRY" -> "PREPARE_SHIFT_BYTE_OUT"
      [] d.state = "PREPARE_SHIFT_BYTE_OUT" ->
            IF d.fifo_byte_sent \in 1..6 THEN "SHIFT_BYTE_OUT"
            ELSE IF d.fifo_byte_sent >= 7 THEN "READ_FIFO"
            ELSE "PREPARE_SHIFT_BYTE_OUT"
      [] d.state = "SHIFT_BYTE_OUT" ->
            IF d.rxc = 1 THEN "PREPARE_SHIFT_BYTE_OUT" ELSE "SHIFT_BYTE_OUT"

\* StateNext without the ResetInserter
StateNextNoReset == FsmNext

\* fsm.reset = pads.csn
StateNext == IF pads.csn = 1 THEN "IDLE" ELSE FsmNext

StrCmdNext ==
    IF pads.csn = 1 THEN 0
    ELSE IF d.state = "CMD_PHASE" /\ d.rxc = 1 THEN d.rxd
    ELSE d.str_cmd

StrAddrNext ==
    IF pads.csn = 1 THEN 0
    ELSE IF d.state = "ADDR_PHASE" /\ d.rxc = 1 THEN d.rxd
    ELSE d.str_addr

\* BusAddrNext without the auto-increment of a burst write
BusAddrNextNoInc ==
    IF pads.csn = 1 THEN 0
    ELSE IF d.state = "DETERMINE_REG_ACCESS" /\ d.str_cmd # CMD_WRITE /\ d.str_cmd = CMD_READ
         THEN d.str_addr
    ELSE IF d.state = "REG_VALUE_SHIFTIN" /\ d.rxc = 1 THEN d.str_addr
    ELSE IF d.state = "SHIFT_OUT_DONE" /\ ~csn_r /\ d.bus_addr < LAST_REG
         THEN (d.bus_addr + 1) % 256
    ELSE d.bus_addr

BusAddrNext ==
    IF pads.csn = 1 THEN 0
    ELSE IF d.state = "DETERMINE_REG_ACCESS" /\ d.str_cmd # CMD_WRITE /\ d.str_cmd = CMD_READ
         THEN d.str_addr
    ELSE IF d.state = "REG_VALUE_SHIFTIN" /\ d.rxc = 1 THEN d.str_addr
    ELSE IF d.state = "REG_WRITE_NEXT" /\ ~csn_r /\ d.rxc = 1 THEN (d.bus_addr + 1) % 256
    ELSE IF d.state = "SHIFT_OUT_DONE" /\ ~csn_r /\ d.bus_addr < LAST_REG
         THEN (d.bus_addr + 1) % 256
    ELSE d.bus_addr

BusDwNext ==
    IF pads.csn = 1 THEN 0
    ELSE IF d.state = "REG_VALUE_SHIFTIN" /\ d.rxc = 1 THEN d.rxd
    ELSE IF d.state = "REG_WRITE_NEXT" /\ ~csn_r /\ d.rxc = 1 THEN d.rxd
    ELSE d.bus_dw

\* BusRNext without the clearing of the read strobe in LOAD_TX_BUF
BusRNextHeld ==
    IF pads.csn = 1 THEN 0
    ELSE IF d.state = "DETERMINE_REG_ACCESS" /\ d.str_cmd # CMD_WRITE /\ d.str_cmd = CMD_READ
         THEN 1
    ELSE IF d.state = "SHIFT_OUT_DONE" /\ ~csn_r /\ d.bus_addr < LAST_REG THEN 1
    ELSE d.bus_r

BusRNext ==
    IF pads.csn = 1 THEN 0
    ELSE IF d.state = "DETERMINE_REG_ACCESS" /\ d.str_cmd # CMD_WRITE /\ d.str_cmd = CMD_READ
         THEN 1
    ELSE IF d.state = "LOAD_TX_BUF" THEN 0
    ELSE IF d.state = "SHIFT_OUT_DONE" /\ ~csn_r /\ d.bus_addr < LAST_REG THEN 1
    ELSE d.bus_r

BusWNext ==
    IF pads.csn = 1 THEN 0
    ELSE IF d.state = "REG_VALUE_SHIFTIN" /\ d.rxc = 1 THEN 1
    ELSE IF d.state = "REG_WRITE_VALUE" THEN 0
    ELSE IF d.state = "REG_WRITE_NEXT" /\ ~csn_r /\ d.rxc = 1 THEN 1
    ELSE d.bus_w

FifoReNext ==
    IF pads.csn = 1 THEN 0
    ELSE IF d.state = "READ_FIFO" /\ d.fifo_byte_sent = 0 /\ d.readable = 1 THEN 1
    ELSE IF d.state = "READ_FIFO_ENTRY_STROBE" THEN 0
    ELSE d.fifo_re

\* TX data: cleared at csn falling, shifted left at sck falling; the fsm's
\* assignments come later in the synchronous block and win; its reset wins over all
TxBufNext ==
    IF pads.csn = 1 THEN 0
    ELSE IF d.state = "IDLE" /\ pads.csn = 0 THEN 0
    ELSE IF d.state = "LOAD_TX_BUF" THEN d.dr
    ELSE IF d.state = "PREPARE_SHIFT_BYTE_OUT" /\ d.fifo_byte_sent \in 1..6
         THEN EntryByte(d.fifo_entry, d.fifo_byte_sent - 1)
    ELSE IF csn_f THEN 0
    ELSE IF sck_f THEN (d.tx_buf * 2) % 256
    ELSE d.tx_buf

\* reset_less: not cleared by csn
FifoEntryNext == IF d.state = "READ_FIFO_ENTRY" THEN d.dout ELSE d.fifo_entry

FifoByteSentNext ==
    IF d.state = "READ_FIFO_ENTRY" THEN 1
    ELSE IF d.state = "PREPARE_SHIFT_BYTE_OUT" /\ d.fifo_byte_sent >= 7 THEN 0
    ELSE IF d.state = "SHIFT_BYTE_OUT" /\ d.rxc = 1 THEN (d.fifo_byte_sent + 1) % 8
    ELSE d.fifo_byte_sent

\* fifo_entry_read_cnt = Signal(max=FIFO_DEPTH)
ReadCntMod == 2 ^ BitsFor(FIFO_DEPTH - 1)

FifoEntryReadCntNext ==
    IF d.state = "READ_FIFO_ENTRY" THEN (d.fifo_entry_read_cnt + 1) % ReadCntMod
    ELSE IF 3 * d.fifo_entry_read_cnt >= fifo_samples THEN 0
    ELSE d.fifo_entry_read_cnt

----------------------------------------------------------------------------
(* RX data, RX complete *)

BitcntNext ==
    IF csn_f THEN 0
    ELSE IF sck_f THEN (d.bitcnt + 1) % 8
    ELSE d.bitcnt

\* RxdNext shifting right: the first bit ends in bit 0
RxdNextLsbFirst ==
    IF csn_f THEN 0
    ELSE IF sck_f THEN (d.rxd \div 2) + 128 * mosi_s
    ELSE d.rxd

RxdNext ==
    IF csn_f THEN 0
    ELSE IF sck_f THEN ((d.rxd * 2) % 256) + mosi_s
    ELSE d.rxd

RxcNext == IF pads.csn = 0 /\ sck_f /\ d.bitcnt = 7 THEN 1 ELSE 0

----------------------------------------------------------------------------
(* STATUS update *)

WatermarkNext ==
    IF 3 * d.fifo_entry_read_cnt >= fifo_samples THEN 0
    ELSE IF fifo_axis_level >= fifo_samples THEN 1
    ELSE Bit(d.STATUS, 2)

\* observer of the STATUS update, not a register of the core: the number
\* of entries the protocol engine removed from the FIFO since STATUS bit 2
\* last changed from 0 to 1
PoppedNext ==
    LET pop == IF d.fifo_re = 1 /\ d.readable = 1 THEN 1 ELSE 0
    IN  IF Bit(d.STATUS, 2) = 0 /\ WatermarkNext = 1 THEN pop ELSE d.popped + pop

\* StatusNext with an overrun bit that stays set once it was set
StatusNextSticky ==
    (d.STATUS \div 16) * 16
    + 8 * (IF FifoLevel >= FIFO_DEPTH \/ Bit(d.STATUS, 3) = 1 THEN 1 ELSE 0)
    + 4 * WatermarkNext
    + 2 * (IF FifoLevel >= 1 THEN 1 ELSE 0)
    + (IF FifoLevel >= 1 THEN 1 ELSE 0)

StatusNext ==
    (d.STATUS \div 16) * 16
    + 8 * (IF FifoLevel >= FIFO_DEPTH THEN 1 ELSE 0)
    + 4 * WatermarkNext
    + 2 * (IF FifoLevel >= 1 THEN 1 ELSE 0)
    + (IF FifoLevel >= 1 THEN 1 ELSE 0)

----------------------------------------------------------------------------
(* ffsm: the sample-load engine, triggered by the rising edge of soc2ip_we *)

we_r == Rising(d.we_cnt)

\* FIFO_MODE = FIFO_CONTROL[1:0] = 2 is stream mode
StreamMode == d.regs[FIFO_CONTROL] % 4 = 2

\* soc2ip_full.status = (fifo.level >= FIFO_DEPTH) & (FIFO_MODE != 2)
soc2ip_full == IF FifoLevel >= FIFO_DEPTH /\ ~StreamMode THEN 1 ELSE 0

\* DoPush without the fifo.writable condition of the non-stream branch
DoPushAlways == d.fstate = "IDLE" /\ we_r

DoPush == d.fstate = "IDLE" /\ we_r /\ (StreamMode \/ Writable)

FstateNext ==
    CASE d.fstate = "IDLE" -> IF DoPush THEN "FIFO_WRITE_STROBE" ELSE "IDLE"
      [] d.fstate = "FIFO_WRITE_STROBE" -> "FIFO_WRITE"
      [] d.fstate = "FIFO_WRITE" -> "IDLE"

DoneNext ==
    IF d.fstate = "IDLE" /\ we_r THEN 0
    ELSE IF d.fstate = "FIFO_WRITE" THEN 1
    ELSE d.done

FifoDinNext == IF DoPush THEN pads.smp ELSE d.fifo_din

FifoWeNext ==
    IF DoPush THEN 1
    ELSE IF d.fstate = "FIFO_WRITE_STROBE" THEN 0
    ELSE d.fifo_we

----------------------------------------------------------------------------
(* ODRController: prescaler to the base frequency, programmable divider,  *)
(* rising-edge detector of the divided output                             *)

\* int(freq/fbase): system ticks per base period
BasePeriod == freq \div fbase

\* prescaler = Signal(max=int(freq/fbase)-1)
PrescalerMod == 2 ^ BitsFor(BasePeriod - 2)

\* cnt = Signal(max=int(fbase/12.5)-1)
OdrCntMod == 2 ^ BitsFor(((fbase * 2) \div 25) - 2)

\* odr = FILTER_CTL[2:0]
odr == d.regs[FILTER_CTL] % 8

\* cpt = int(fbase/(12.5 * 2^odr)) - 1 for odr in 0..4, 0 otherwise
Cpt(k) == IF k <= 4 THEN ((fbase * 2) \div (25 * (2 ^ k))) - 1 ELSE 0

\* the prescaler completes a base period at this tick
BaseTick == d.ena = 1 /\ d.prescaler = BasePeriod - 1

\* the divided output toggles at this tick
Toggle == BaseTick /\ (odr >= 5 \/ d.ocnt = Cpt(odr))

\* ena follows MEASURE = POWER_CTL[1:0] = 2
EnaNext == IF d.regs[POWER_CTL] % 4 = 2 THEN 1 ELSE 0

PrescalerNext ==
    IF d.ena = 0 THEN d.prescaler
    ELSE IF BaseTick THEN 0
    ELSE (d.prescaler + 1) % PrescalerMod

\* OdrCntNext with the divider counting one base period more
OdrCntNextLate ==
    IF ~BaseTick \/ odr >= 5 THEN d.ocnt
    ELSE IF d.ocnt = Cpt(odr) + 1 THEN 0
    ELSE (d.ocnt + 1) % OdrCntMod

OdrCntNext ==
    IF ~BaseTick \/ odr >= 5 THEN d.ocnt
    ELSE IF d.ocnt = Cpt(odr) THEN 0
    ELSE (d.ocnt + 1) % OdrCntMod

\* FoutNext without the forcing to 0 while disabled
FoutNextHeld == IF Toggle THEN 1 - d.fout ELSE d.fout

FoutNext ==
    IF d.ena = 0 THEN 0
    ELSE IF Toggle THEN 1 - d.fout
    ELSE d.fout

\* edt = ResetInserter()(EdgeDetector()), edt.reset = ~ena, edt.i = fout
EdtNext == IF d.ena = 0 THEN 0 ELSE EdgeNext(d.edt_cnt, d.fout)

\* foutr = edt.r
foutr == IF Rising(d.edt_cnt) THEN 1 ELSE 0

\* ev.ip2soc_irq.trigger: untouched while reg.reset, else foutr & soc2ip_st
IrqNext ==
    IF d.reg_reset = 1 THEN d.irq
    ELSE IF foutr = 1 /\ pads.st = 1 THEN 1
    ELSE 0

\* observer: the levels the edge detectors sample at this tick, kept for one
\* tick (the inputs of the detectors one tick ago); valid is 0 only in the
\* state after construction, where no tick has sampled anything yet
SeenNext == [sck |-> pads.sck, csn |-> pads.csn, we |-> pads.we, valid |-> 1]

----------------------------------------------------------------------------
(* One system clock tick of the core *)

Tick ==
    [ state |-> StateNext,
      tx_buf |-> TxBufNext,
      str_cmd |-> StrCmdNext,
      str_addr |-> StrAddrNext,
      bus_addr |-> BusAddrNext,
      bus_dw |-> BusDwNext,
      bus_r |-> BusRNext,
      bus_w |-> BusWNext,
      fifo_re |-> FifoReNext,
      fifo_entry |-> FifoEntryNext,
      fifo_byte_sent |-> FifoByteSentNext,
      fifo_entry_read_cnt |-> FifoEntryReadCntNext,
      sck_cnt |-> EdgeNext(d.sck_cnt, pads.sck),
      csn_cnt |-> EdgeNext(d.csn_cnt, pads.csn),
      mosi_cnt |-> EdgeNext(d.mosi_cnt, pads.mosi),
      we_cnt |-> EdgeNext(d.we_cnt, pads.we),
      bitcnt |-> BitcntNext,
      rxd |-> RxdNext,
      rxc |-> RxcNext,
      regs |-> RegsNext,
      dr |-> DrNext,
      STATUS |-> StatusNext,
      reg_reset |-> RegResetNext,
      sys_rst |-> SysRstNext,
      q |-> QNext,
      dout |-> DoutNext,
      readable |-> ReadableNext,
      fifo_din |-> FifoDinNext,
      fifo_we |-> FifoWeNext,
      fstate |-> FstateNext,
      done |-> DoneNext,
      ena |-> EnaNext,
      prescaler |-> PrescalerNext,
      ocnt |-> OdrCntNext,
      fout |-> FoutNext,
      edt_cnt |-> EdtNext,
      irq |-> IrqNext,
      popped |-> PoppedNext,
      seen |-> SeenNext ]

\* the registers after construction (their reset values)
DInit ==
    [ state |-> "IDLE",
      tx_buf |-> 0, str_cmd |-> 0, str_addr |-> 0,
      bus_addr |-> 0, bus_dw |-> 0, bus_r |-> 0, bus_w |-> 0,
      fifo_re |-> 0, fifo_entry |-> <<0, 0, 0>>, fifo_byte_sent |-> 0,
      fifo_entry_read_cnt |-> 0,
      sck_cnt |-> 0, csn_cnt |-> 0, mosi_cnt |-> 0, we_cnt |-> 0,
      bitcnt |-> 0, rxd |-> 0, rxc |-> 0,
      regs |-> PowerOn, dr |-> 0, STATUS |-> 64, reg_reset |-> 0, sys_rst |-> 0,
      q |-> <<>>, dout |-> <<0, 0, 0>>, readable |-> 0,
      fifo_din |-> <<0, 0, 0>>, fifo_we |-> 0,
      fstate |-> "IDLE", done |-> 0,
      ena |-> 0, prescaler |-> 0, ocnt |-> 0, fout |-> 0, edt_cnt |-> 0, irq |-> 0,
      popped |-> 0,
      seen |-> [sck |-> 0, csn |-> 0, we |-> 0, valid |-> 0] ]

----------------------------------------------------------------------------
(* MISO pad: Tristate(pads.miso, miso, ~pads.csn) *)

\* miso taken from bit 0 of the TX buffer
MisoLsb == Bit(d.tx_buf, 0)

miso == Bit(d.tx_buf, 7)

miso_oe == 1 - pads.csn

----------------------------------------------------------------------------
(* Interrupt signaling: pads.int1 and pads.int2 *)

\* one interrupt line from its map register m: active high when m[7] = 0,
\* active low (~m[2] | ~STATUS[2]) when m[7] = 1
IntLine(m) ==
    IF Bit(m, 7) = 0
    THEN Bit(m, 2) * Bit(d.STATUS, 2)
    ELSE IF (1 - Bit(m, 2)) + (1 - Bit(d.STATUS, 2)) >= 1 THEN 1 ELSE 0

int1 == IntLine(d.regs[INTMAP1])

\* int2 computed from INTMAP1
Int2FromMap1 == IntLine(d.regs[INTMAP1])

int2 == IntLine(d.regs[INTMAP2])

----------------------------------------------------------------------------
(* The host.  It changes one line at a time and leaves h.per ticks        *)
(* between two changes (n in the test benches); it may always wait        *)
(* longer.  In one chip-select assertion it shifts out the bytes of       *)
(* h.plan, most significant bit first, changing mosi with the falling     *)
(* edge of sck and sampling miso at the rising edge.                      *)

\* number of chip-select assertions of one behaviour
MaxTx == 2

\* number of chip-select assertions of a behaviour made of one frame
MaxFrames == 1

\* number of samples the host injects in one behaviour
MaxInject == 2

CanAct == h.gap >= h.per - 1

HostInit(per) ==
    [ per |-> per, gap |-> 0, plan |-> <<>>, idx |-> 0, bit |-> 0,
      rx |-> 0, got |-> <<>>, ntx |-> 0, prev |-> <<>>,
      ninj |-> 0, inj |-> <<>>, injAfter |-> FALSE, nfast |-> 0, nidle |-> 0 ]

PadsInit == [ csn |-> 1, sck |-> 0, mosi |-> 0, we |-> 0, smp |-> <<0, 0, 0>>, st |-> 0 ]

\* the host leaves the lines as they are for one tick
Wait ==
    /\ d' = Tick
    /\ pads' = pads
    /\ h' = [h EXCEPT !.gap = IF h.gap < h.per - 1 THEN h.gap + 1 ELSE h.gap]

\* chip-select assertion; the first bit of the first byte is put on mosi
Select(pl, max) ==
    /\ CanAct
    /\ pads.csn = 1
    /\ pads.we = 0
    /\ h.ntx < max
    /\ d' = Tick
    /\ pads' = [pads EXCEPT !.csn = 0, !.mosi = Bit(pl[1], 7)]
    /\ h' = [h EXCEPT !.plan = pl, !.idx = 1, !.bit = 0, !.rx = 0, !.got = <<>>,
                      !.ntx = h.ntx + 1, !.gap = 0]

\* rising edge of sck: the host samples miso
SckRise ==
    /\ CanAct
    /\ pads.csn = 0
    /\ pads.sck = 0
    /\ h.idx <= Len(h.plan)
    /\ d' = Tick
    /\ pads' = [pads EXCEPT !.sck = 1]
    /\ h' = [h EXCEPT !.rx = (h.rx * 2 + miso) % 256, !.gap = 0]

\* falling edge of sck: the host puts the next bit on mosi; after the eighth
\* edge of a byte it has received one byte
SckFall ==
    /\ CanAct
    /\ pads.sck = 1
    /\ d' = Tick
    /\ LET last == h.bit = 7
           nidx == IF last THEN h.idx + 1 ELSE h.idx
           nbit == IF last THEN 0 ELSE h.bit + 1
           nmosi == IF nidx <= Len(h.plan) THEN Bit(h.plan[nidx], 7 - nbit) ELSE 0
       IN  /\ pads' = [pads EXCEPT !.sck = 0, !.mosi = nmosi]
           /\ h' = [h EXCEPT !.idx = nidx, !.bit = nbit,
                             !.rx = IF last THEN 0 ELSE h.rx,
                             !.got = IF last THEN Append(h.got, h.rx) ELSE h.got,
                             !.gap = 0]

\* chip-select de-assertion, with the clock idle; with mid also in the middle
\* of a byte
Deselect(mid) ==
    /\ CanAct
    /\ pads.csn = 0
    /\ pads.sck = 0
    /\ mid \/ h.bit = 0
    /\ d' = Tick
    /\ pads' = [pads EXCEPT !.csn = 1, !.mosi = 0]
    /\ h' = [h EXCEPT !.plan = <<>>, !.idx = 0, !.bit = 0, !.rx = 0, !.got = <<>>,
                      !.prev = IF h.idx = Len(h.plan) + 1 THEN h.plan ELSE <<>>,
                      !.injAfter = FALSE, !.gap = 0]

\* the CPU writes a sample to soc2ip_dx/dy/dz and sets soc2ip_we, before the
\* first chip-select assertion
Inject(s) ==
    /\ CanAct
    /\ pads.csn = 1
    /\ pads.we = 0
    /\ h.ntx = 0
    /\ h.ninj < MaxInject
    /\ d' = Tick
    /\ pads' = [pads EXCEPT !.we = 1, !.smp = s]
    /\ h' = [h EXCEPT !.ninj = h.ninj + 1, !.inj = Append(h.inj, s),
                      !.injAfter = TRUE, !.gap = 0]

\* the CPU clears soc2ip_we
Release ==
    /\ CanAct
    /\ pads.we = 1
    /\ d' = Tick
    /\ pads' = [pads EXCEPT !.we = 0]
    /\ h' = [h EXCEPT !.gap = 0]

----------------------------------------------------------------------------
(* Spec: single register writes and reads, two chip-select assertions *)

\* addresses the host accesses: DEVID_AD, STATUS, SOFT_RESET, THRESH_ACT_L,
\* POWER_CTL and the unenumerated 0x2E
RegAddrs == {0, 11, 31, 32, 45, 46}

RegData == {16, 82}

\* the first frame is a write or a read, the following ones are reads; the
\* write that starts the ODR controller (POWER_CTL[1:0] = 2) is left to
\* SpecProto and SpecOdr
PlansReg(k) ==
    {<<CMD_READ, a, 0>> : a \in RegAddrs}
    \cup (IF k = 0
          THEN {<<CMD_WRITE, a, v>> : a \in RegAddrs, v \in RegData}
               \ {<<CMD_WRITE, POWER_CTL, RESET_KEY>>}
          ELSE {})

Init ==
    /\ d = DInit
    /\ pads = PadsInit
    /\ h = HostInit(n)

Next ==
    \/ Wait
    \/ \E pl \in PlansReg(h.ntx) : Select(pl, MaxTx)
    \/ SckRise
    \/ SckFall
    \/ Deselect(TRUE)

Spec == Init /\ [][Next]_vars

----------------------------------------------------------------------------
(* SpecProto: one chip-select assertion carrying a burst write, a burst   *)
(* read, or an unrecognized command followed by further bytes             *)

PlansProto ==
    {<<CMD_WRITE, 44, 85, 2, 7>>, <<CMD_WRITE, 30, 16, 82, 85>>, <<CMD_WRITE, 32, 16>>}
    \cup {<<CMD_READ, 43, 0, 0, 0, 0>>, <<CMD_READ, 45, 0, 11, 32, 0>>, <<CMD_READ, 0, 0, 0>>}
    \cup {<<12, 10, 32, 16>>, <<12, 11, 0, 0>>, <<0, 0, 0>>}

NextProto ==
    \/ Wait
    \/ \E pl \in PlansProto : Select(pl, MaxFrames)
    \/ SckRise
    \/ SckFall
    \/ Deselect(TRUE)

SpecProto == Init /\ [][NextProto]_vars

----------------------------------------------------------------------------
(* SpecFifo: sample injection, FIFO reads, soft reset and reads of the    *)
(* status registers                                                       *)

\* (100, -50, 200) and (0x1234, 0xABCD, 0x00FF) as 16-bit values
Samples == {<<100, 65486, 200>>, <<4660, 43981, 255>>}

\* the first frame reads two FIFO entries or requests a soft reset, the
\* following ones read STATUS, FIFO_ENTRIES_L or FIFO_SAMPLES
PlansFifo(k) ==
    IF k = 0
    THEN {<<CMD_FIFO, 0, 0, 0, 0, 0, 0, 0, 0, 0, 0, 0, 0>>, <<CMD_WRITE, SOFT_RESET, RESET_KEY>>}
    ELSE {<<CMD_READ, a, 0>> : a \in {11, 12, 41}}

NextFifo ==
    \/ Wait
    \/ \E pl \in PlansFifo(h.ntx) : Select(pl, MaxTx)
    \/ SckRise
    \/ SckFall
    \/ Deselect(FALSE)
    \/ \E s \in Samples : Inject(s)
    \/ Release

SpecFifo == Init /\ [][NextFifo]_vars

----------------------------------------------------------------------------
(* SpecLong: one long burst write that starts at POWER_CTL (0x2D), from a  *)
(* host that toggles sck at every tick                                     *)

\* number of data bytes of the long burst
MaxBurst == 244

LongBurst ==
    [i \in 1..(2 + MaxBurst) |-> IF i = 1 THEN CMD_WRITE ELSE IF i = 2 THEN LAST_REG ELSE 85]

InitLong ==
    /\ d = DInit
    /\ pads = PadsInit
    /\ h = HostInit(1)

NextLong ==
    \/ Wait
    \/ Select(LongBurst, MaxFrames)
    \/ SckRise
    \/ SckFall
    \/ Deselect(FALSE)

SpecLong == InitLong /\ [][NextLong]_vars

----------------------------------------------------------------------------
(* SpecLive: one FIFO read that starts on an empty FIFO; the CPU injects   *)
(* samples while the host is clocking out the second byte of the frame     *)

\* number of samples the CPU injects during the frame
MaxLive == 1

\* one FIFO read of seven data bytes
LiveRead == <<CMD_FIFO, 0, 0, 0, 0, 0, 0, 0>>

\* the CPU writes soc2ip_dx/dy/dz and sets soc2ip_we while the host is in
\* the second byte of its frame
InjectLive(s) ==
    /\ CanAct
    /\ pads.csn = 0
    /\ pads.we = 0
    /\ h.idx = 2
    /\ h.ninj < MaxLive
    /\ d' = Tick
    /\ pads' = [pads EXCEPT !.we = 1, !.smp = s]
    /\ h' = [h EXCEPT !.ninj = h.ninj + 1, !.inj = Append(h.inj, s),
                      !.injAfter = TRUE, !.gap = 0]

NextLive ==
    \/ Wait
    \/ Select(LiveRead, MaxFrames)
    \/ SckRise
    \/ SckFall
    \/ Deselect(FALSE)
    \/ \E s \in Samples : InjectLive(s)
    \/ Release

SpecLive == Init /\ [][NextLive]_vars

----------------------------------------------------------------------------
(* SpecFill: the CPU fills the FIFO with numbered samples and no pops;    *)
(* before the first sample the host may select stream mode                 *)

\* number of samples the CPU injects while filling
MaxFill == 172

\* FIFO_CONTROL = 0x02: FIFO_MODE = stream
StreamOn == <<CMD_WRITE, FIFO_CONTROL, 2>>

\* the CPU injects the sample (k, 0, 0), k the number of the injection
InjectSeq ==
    /\ CanAct
    /\ pads.csn = 1
    /\ pads.we = 0
    /\ h.ninj < MaxFill
    /\ d' = Tick
    /\ pads' = [pads EXCEPT !.we = 1, !.smp = <<h.ninj + 1, 0, 0>>]
    /\ h' = [h EXCEPT !.ninj = h.ninj + 1, !.gap = 0]

NextFill ==
    \/ Wait
    \/ (h.ninj = 0 /\ Select(StreamOn, MaxFrames))
    \/ SckRise
    \/ SckFall
    \/ Deselect(FALSE)
    \/ InjectSeq
    \/ Release

SpecFill == Init /\ [][NextFill]_vars

----------------------------------------------------------------------------
(* SpecMark: the CPU injects samples, the host then sets the watermark     *)
(* threshold to 3 (one entry) together with INTMAP1 and INTMAP2, and       *)
(* reads the FIFO                                                          *)

\* values of an interrupt map register: bit 2 (watermark enable) and bit 7
\* (active low) in every combination
MapValues == {0, 4, 128, 132}

\* the first frame is a burst write of FIFO_SAMPLES, INTMAP1 and INTMAP2,
\* the following ones are FIFO reads
PlansMark(k) ==
    IF k = 0
    THEN {<<CMD_WRITE, FIFO_SAMPLES, 3, m1, m2>> : m1 \in MapValues, m2 \in MapValues}
    ELSE {LiveRead}

NextMark ==
    \/ Wait
    \/ \E pl \in PlansMark(h.ntx) : Select(pl, MaxTx)
    \/ SckRise
    \/ SckFall
    \/ Deselect(FALSE)
    \/ Inject(<<100, 65486, 200>>)
    \/ Release

SpecMark == Init /\ [][NextMark]_vars

----------------------------------------------------------------------------
(* SpecOdr: the host selects an output data rate and starts measurement,   *)
(* lets the ODR controller run, and then stops measurement or changes the  *)
(* rate; the host toggles sck at every tick                                *)

\* number of chip-select assertions of a behaviour of SpecOdr
MaxOdrTx == 2

\* the first frame writes FILTER_CTL = k and POWER_CTL = 2 (measure); after
\* a rate k >= 3 the second one stops measurement or selects the rate 4,
\* and later ones start measurement again
PlansOdr(k) ==
    IF k = 0 THEN {<<CMD_WRITE, FILTER_CTL, v, 2>> : v \in 0..7}
    ELSE IF Len(h.prev) < 3 \/ h.prev[3] < 3 THEN {}
    ELSE IF k = 1 THEN {<<CMD_WRITE, POWER_CTL, 0>>, <<CMD_WRITE, FILTER_CTL, 4>>}
    ELSE {<<CMD_WRITE, POWER_CTL, 2>>}

NextOdr ==
    \/ Wait
    \/ \E pl \in PlansOdr(h.ntx) : Select(pl, MaxOdrTx)
    \/ SckRise
    \/ SckFall
    \/ Deselect(FALSE)

SpecOdr == InitLong /\ [][NextOdr]_vars

----------------------------------------------------------------------------
(* SpecRace: the CPU injects samples, the host starts a FIFO read, and      *)
(* right after the command byte the CPU toggles soc2ip_we at ticks of its   *)
(* own choice, also at consecutive ones                                     *)

\* number of times the CPU sets soc2ip_we during the frame
MaxFast == 2

\* a FIFO read of one data byte
ShortRead == <<CMD_FIFO, 0>>

\* the host has sent the command byte and not yet raised sck again
AfterCmd == pads.csn = 0 /\ pads.sck = 0 /\ h.idx = 2 /\ h.bit = 0

\* the CPU writes the sample (1, 2, 3) and sets soc2ip_we, at any tick
Strobe ==
    /\ AfterCmd
    /\ pads.we = 0
    /\ h.nfast < MaxFast
    /\ d' = Tick
    /\ pads' = [pads EXCEPT !.we = 1, !.smp = <<1, 2, 3>>]
    /\ h' = [h EXCEPT !.nfast = h.nfast + 1]

\* the CPU clears soc2ip_we, at any tick
Clear ==
    /\ AfterCmd
    /\ pads.we = 1
    /\ h.nfast >= 1
    /\ d' = Tick
    /\ pads' = [pads EXCEPT !.we = 0]
    /\ UNCHANGED h

NextRace ==
    \/ Wait
    \/ Select(ShortRead, MaxFrames)
    \/ SckRise
    \/ SckFall
    \/ Deselect(FALSE)
    \/ Inject(<<100, 65486, 200>>)
    \/ Release
    \/ Strobe
    \/ Clear

SpecRace == Init /\ [][NextRace]_vars

----------------------------------------------------------------------------
(* SpecResume: the CPU injects samples and the host reads the FIFO in      *)
(* several chip-select assertions, each of which it may end after any      *)
(* number of bytes                                                         *)

NextResume ==
    \/ Wait
    \/ Select(LiveRead, MaxTx)
    \/ SckRise
    \/ SckFall
    \/ Deselect(FALSE)
    \/ Inject(<<4660, 43981, 255>>)
    \/ Release

SpecResume == Init /\ [][NextResume]_vars

----------------------------------------------------------------------------
(* SpecHaste: one register write or one FIFO read from a host that is not  *)
(* bound to n ticks between two changes: it may de-assert chip-select at   *)
(* any tick after the last clock edge of a byte                            *)

PlansHaste == {<<CMD_WRITE, 32, 16>>, ShortRead}

NextHaste ==
    \/ Wait
    \/ \E pl \in PlansHaste : Select(pl, MaxFrames)
    \/ SckRise
    \/ SckFall
    \/ Deselect(FALSE)
    \/ Inject(<<4660, 43981, 255>>)
    \/ Release

SpecHaste == InitLong /\ [][NextHaste]_vars

----------------------------------------------------------------------------
(* SpecDrain: the host sets the watermark threshold to 4 (two entries) and *)
(* then reads the FIFO one entry at a time, while the CPU injects samples  *)
(* between the chip-select assertions                                      *)

\* number of chip-select assertions of a behaviour of SpecDrain
MaxDrainTx == 3

\* number of samples the CPU injects in a behaviour of SpecDrain
MaxDrain == 3

\* the first frame writes FIFO_SAMPLES = 4, the following ones are FIFO reads
PlansDrain(k) == IF k = 0 THEN {<<CMD_WRITE, FIFO_SAMPLES, 4>>} ELSE {LiveRead}

\* the CPU writes a sample and sets soc2ip_we between two chip-select
\* assertions, after the threshold was written
InjectDrain ==
    /\ CanAct
    /\ pads.csn = 1
    /\ pads.we = 0
    /\ h.ntx >= 1
    /\ h.ninj < MaxDrain
    /\ d' = Tick
    /\ pads' = [pads EXCEPT !.we = 1, !.smp = <<100, 65486, 200>>]
    /\ h' = [h EXCEPT !.ninj = h.ninj + 1, !.gap = 0]

NextDrain ==
    \/ Wait
    \/ \E pl \in PlansDrain(h.ntx) : Select(pl, MaxDrainTx)
    \/ SckRise
    \/ SckFall
    \/ (h.idx = Len(h.plan) + 1 /\ Deselect(FALSE))
    \/ InjectDrain
    \/ Release

SpecDrain == Init /\ [][NextDrain]_vars

----------------------------------------------------------------------------
(* SpecIdleClk: the clock toggles while chip-select is high, then the host *)
(* sends one register write; the host is not bound to n ticks between two  *)
(* changes                                                                 *)

\* number of clock pulses while chip-select is high
MaxIdle == 8

\* rising edge of sck while chip-select is high, before the first frame
IdleRise ==
    /\ CanAct
    /\ pads.csn = 1
    /\ pads.sck = 0
    /\ h.ntx = 0
    /\ h.nidle < MaxIdle
    /\ d' = Tick
    /\ pads' = [pads EXCEPT !.sck = 1]
    /\ h' = [h EXCEPT !.nidle = h.nidle + 1, !.gap = 0]

\* falling edge of sck while chip-select is high
IdleFall ==
    /\ CanAct
    /\ pads.csn = 1
    /\ pads.sck = 1
    /\ d' = Tick
    /\ pads' = [pads EXCEPT !.sck = 0]
    /\ h' = [h EXCEPT !.gap = 0]

NextIdleClk ==
    \/ Wait
    \/ (pads.sck = 0 /\ Select(<<CMD_WRITE, 32, 16>>, MaxFrames))
    \/ SckRise
    \/ (pads.csn = 0 /\ SckFall)
    \/ Deselect(FALSE)
    \/ IdleRise
    \/ IdleFall

SpecIdleClk == InitLong /\ [][NextIdleClk]_vars

----------------------------------------------------------------------------
(* SpecSpill: the CPU fills the FIFO to its capacity with numbered samples *)
(* and the host then starts a FIFO read                                    *)

NextSpill ==
    \/ Wait
    \/ (h.ninj >= FIFO_DEPTH /\ Select(ShortRead, MaxFrames))
    \/ SckRise
    \/ SckFall
    \/ Deselect(FALSE)
    \/ InjectSeq
    \/ Release

SpecSpill == Init /\ [][NextSpill]_vars

----------------------------------------------------------------------------
(* SpecIrq: the CPU sets and clears the measurement-enable bit soc2ip_st,  *)
(* the host starts measurement at the base rate and then requests a soft   *)
(* reset; the host toggles sck at every tick                               *)

\* the first frame writes FILTER_CTL = 7 and POWER_CTL = 2 (measure), the
\* second one writes 0x52 to SOFT_RESET
PlansIrq(k) ==
    IF k = 0 THEN {<<CMD_WRITE, FILTER_CTL, 7, 2>>}
    ELSE {<<CMD_WRITE, SOFT_RESET, RESET_KEY>>}

\* the CPU sets soc2ip_st
Arm ==
    /\ pads.st = 0
    /\ d' = Tick
    /\ pads' = [pads EXCEPT !.st = 1]
    /\ h' = h

\* the CPU clears soc2ip_st
Disarm ==
    /\ pads.st = 1
    /\ d' = Tick
    /\ pads' = [pads EXCEPT !.st = 0]
    /\ h' = h

NextIrq ==
    \/ Wait
    \/ \E pl \in PlansIrq(h.ntx) : Select(pl, MaxTx)
    \/ SckRise
    \/ SckFall
    \/ Deselect(FALSE)
    \/ Arm
    \/ Disarm

SpecIrq == InitLong /\ [][NextIrq]_vars

----------------------------------------------------------------------------
(* SpecKeep: the host writes FIFO_SAMPLES .. POWER_CTL in one burst, which  *)
(* starts measurement at the base rate; the CPU then injects samples and   *)
(* the host reads the FIFO, reads registers, writes to the read-only       *)
(* STATUS address or requests a soft reset; within a frame the host        *)
(* toggles sck at every tick, and every write ends with a byte for an      *)
(* address that stores nothing, so that the bytes before it are committed  *)

\* FIFO_SAMPLES = 3, INTMAP1 = 0x84, INTMAP2 = 0, FILTER_CTL = 7, POWER_CTL = 2
KeepWrite == <<CMD_WRITE, FIFO_SAMPLES, 3, 132, 0, 7, 2, 0>>

PlansKeep(k) ==
    IF k = 0 THEN {KeepWrite}
    ELSE {LiveRead, <<CMD_READ, FIFO_SAMPLES, 0, 0>>,
          <<CMD_WRITE, SOFT_RESET, RESET_KEY, 0>>, <<CMD_WRITE, 11, 255, 0>>}

NextKeep ==
    \/ (pads.csn = 1 /\ Wait)
    \/ \E pl \in PlansKeep(h.ntx) : Select(pl, MaxTx)
    \/ SckRise
    \/ SckFall
    \/ (h.idx = Len(h.plan) + 1 /\ Deselect(FALSE))
    \/ InjectDrain
    \/ Release

SpecKeep == InitLong /\ [][NextKeep]_vars

----------------------------------------------------------------------------
(* SpecTurn: one chip-select assertion in which a register read burst ends *)
(* at POWER_CTL (0x2D) and the host goes on with a new command, or a       *)
(* burst write; the host may toggle sck at every tick and may de-assert    *)
(* chip-select in the middle of a byte                                     *)

\* a read of 0x2D or of 0x2C..0x2D followed by a write or a read command, and
\* a burst write of two bytes
PlansTurn ==
    { <<CMD_READ, LAST_REG, 0, CMD_WRITE, 32, 16, 0>>,
      <<CMD_READ, FILTER_CTL, 0, 0, CMD_READ, 32, 0>>,
      <<CMD_WRITE, 32, 16, 85>> }

NextTurn ==
    \/ Wait
    \/ \E pl \in PlansTurn : Select(pl, MaxFrames)
    \/ SckRise
    \/ SckFall
    \/ Deselect(TRUE)

SpecTurn == InitLong /\ [][NextTurn]_vars

----------------------------------------------------------------------------
(* Properties *)

\* the host is in a frame whose first byte is cmd
InFrame(cmd) == h.plan # <<>> /\ h.plan[1] = cmd

\* the previous chip-select assertion was a complete single-byte write
PrevWrite == Len(h.prev) = 3 /\ h.prev[1] = CMD_WRITE

C3_CsnForcesIdle ==
    [][ /\ pads.csn = 1 => d'.state = "IDLE"
        /\ (d.state = "IDLE" /\ d'.state # "IDLE") => pads.csn = 0 ]_vars

\* chip-select went high one tick ago in the middle of a byte (the engine
\* was past IDLE) and the engine is in IDLE
C3_Witness ==
    /\ pads.csn = 1
    /\ d.csn_cnt = 1
    /\ d.bitcnt = 3
    /\ h.ntx >= 1
    /\ d.state = "IDLE"

\* what a read of a slot that is not read/write returns while the FIFO is
\* empty: the identity values, 0x40 for STATUS, 0 for every other slot
ReadOnlyValue(a) ==
    CASE a = 0 -> 173
      [] a = 1 -> 29
      [] a = 2 -> 242
      [] a = 3 -> 1
      [] a = 11 -> 64
      [] OTHER -> 0

\* C6: a host write to an address outside 0x20..0x2D (other than 0x52 to
\* 0x1F) never changes what a later read returns: identity slots read 0xAD,
\* 0x1D, 0xF2, 0x01, internally-writable slots keep the value the core gives
\* them, SOFT_RESET and unenumerated addresses read 0, and the read/write
\* registers keep their value.
C6_WritesOutsideIgnored ==
    /\ (InFrame(CMD_READ) /\ h.plan[2] \notin RWRegs /\ Len(h.got) >= 3)
       => h.got[3] = ReadOnlyValue(h.plan[2])
    /\ (/\ InFrame(CMD_READ)
        /\ h.plan[2] \in RWRegs
        /\ PrevWrite
        /\ h.prev[2] \notin RWRegs
        /\ ~(h.prev[2] = SOFT_RESET /\ h.prev[3] = RESET_KEY)
        /\ Len(h.got) >= 3)
       => h.got[3] = PowerOn[h.plan[2]]

C6_Witness ==
    /\ InFrame(CMD_READ)
    /\ h.plan[2] = 31
    /\ h.prev = <<CMD_WRITE, 31, 16>>
    /\ Len(h.got) >= 3
    /\ h.got[3] = 0

\* C4: after a command byte other than 0x0A, 0x0B, 0x0D the engine aborts
\* and, for the rest of the chip-select assertion, writes no register, issues
\* no register read, pops no FIFO entry and loads no data for output.
C4_BadCommandSilences ==
    (/\ h.plan # <<>>
     /\ h.plan[1] \notin {CMD_WRITE, CMD_READ, CMD_FIFO}
     /\ h.idx >= 2
     /\ pads.csn = 0)
    => /\ d.bus_w = 0
       /\ d.bus_r = 0
       /\ d.fifo_re = 0
       /\ d.state \notin {"LOAD_TX_BUF", "PREPARE_SHIFT_BYTE_OUT"}
       /\ d.regs = PowerOn

\* number of data bytes of the frame the host has sent completely
DataSent == h.idx - 3

\* C7: in one register-write transaction starting at address a, the k-th
\* data byte is committed to address a+k-1 while chip-select stays asserted:
\* the write strobe carries that address and byte, and the register holds
\* the byte afterwards.
C7_BurstWrite ==
    InFrame(CMD_WRITE) =>
        LET k == DataSent
            a == (h.plan[2] + k - 1) % 256
        IN  /\ d.state = "REG_WRITE_STROBE"
               => (k >= 1 /\ d.bus_w = 1 /\ d.bus_addr = a /\ d.bus_dw = h.plan[2 + k])
            /\ (/\ k >= 1
                /\ h.bit = 0
                /\ pads.sck = 0
                /\ h.gap >= 4
                /\ a \in StoredRegs
                /\ ~(a = SOFT_RESET /\ h.plan[2 + k] = RESET_KEY))
               => d.regs[a] = h.plan[2 + k]

C7_Witness ==
    /\ InFrame(CMD_WRITE)
    /\ h.plan[2] = 44
    /\ DataSent = 2
    /\ d.state = "REG_WRITE_VALUE"
    /\ d.bus_addr = 45
    /\ d.regs[44] = 85
    /\ d.regs[45] = 2

\* C8: in one register-read transaction starting at a <= 0x2D the k-th data
\* byte shifted out is the value of register a+k-1 for a+k-1 <= 0x2D, and
\* after the byte for 0x2D the engine loads no further register data.
C8_BurstRead ==
    (InFrame(CMD_READ) /\ h.plan[2] <= LAST_REG) =>
        LET a == h.plan[2]
            left == LAST_REG - a + 1
        IN  /\ \A k \in 1..(Len(h.got) - 2) : k <= left => h.got[2 + k] = RegRead(a + k - 1)
            /\ DataSent >= left
               => (d.bus_r = 0 /\ d.state \notin {"LOAD_SHIFT_OUT_DATA", "LOAD_TX_BUF"})

\* C9: a burst write that continues past 0x2D modifies no register with any
\* data byte received after the one addressed to 0x2D.
C9_BurstWriteStops ==
    [][ (InFrame(CMD_WRITE) /\ h.plan[2] <= LAST_REG /\ DataSent > LAST_REG - h.plan[2] + 1)
        => d'.regs = d.regs ]_vars

\* the first chip-select assertion of the behaviour is a FIFO read: nothing
\* was popped before it and every injected sample was pushed before it
FirstFifoRead == InFrame(CMD_FIFO) /\ h.ntx = 1

\* byte k (0..5) of the sample <<x, y, z>> as the host expects it: X low,
\* X high, Y low, Y high, Z low, Z high
SampleByte(s, k) ==
    LET v == s[(k \div 2) + 1]
    IN  IF k % 2 = 0 THEN v % 256 ELSE v \div 256

\* C2: N samples injected into the empty FIFO are returned by the following
\* FIFO-read pops in injection order, each axis value bit-exact.
C2_FifoOrder ==
    FirstFifoRead =>
        \A j \in 2..Len(h.got) :
            LET e == ((j - 2) \div 6) + 1
            IN  e <= Len(h.inj) => h.got[j] = SampleByte(h.inj[e], (j - 2) % 6)

\* C10: a single sample (x, y, z) injected into the empty FIFO is returned
\* by the following FIFO read as six bytes that reconstruct (x, y, z).
C10_SingleSample ==
    (FirstFifoRead /\ Len(h.inj) = 1 /\ Len(h.got) >= 7)
    => <<h.got[2] + 256 * h.got[3], h.got[4] + 256 * h.got[5], h.got[6] + 256 * h.got[7]>>
       = h.inj[1]

C10_Witness ==
    /\ FirstFifoRead
    /\ h.inj = <<<<100, 65486, 200>>>>
    /\ Len(h.got) >= 7
    /\ h.got[2] = 100
    /\ h.got[4] = 206
    /\ h.got[5] = 255

\* what a register read returns after power-on, with the FIFO empty
PowerOnRead(a) == IF a \in RWRegs THEN PowerOn[a] ELSE ReadOnlyValue(a)

\* C5: after the host writes 0x52 to 0x1F every register is back at its
\* power-on value and the FIFO is empty, as observed by the next
\* register-read transaction.
C5_SoftReset ==
    (/\ InFrame(CMD_READ)
     /\ h.prev = <<CMD_WRITE, SOFT_RESET, RESET_KEY>>
     /\ ~h.injAfter
     /\ Len(h.got) >= 3)
    => /\ h.got[3] = PowerOnRead(h.plan[2])
       /\ FifoLevel = 0

\* the last six bytes the host received
LastSix == [k \in 0..5 |-> h.got[Len(h.got) - 5 + k]]

\* C11: during a FIFO read each entry the engine popped is shifted out as
\* exactly six bytes, bits 7..0 first and bits 47..40 last, and the next
\* entry is popped only after the sixth byte has been shifted out: when the
\* byte count passes six the host has received the six bytes of the entry,
\* the pop strobe rises only with the byte count at 0, and the count returns
\* to 0 only from 7.
C11_FifoByteOrder ==
    [][ InFrame(CMD_FIFO) =>
          /\ (d.state = "PREPARE_SHIFT_BYTE_OUT" /\ d.fifo_byte_sent = 7)
             => (/\ Len(h.got) >= 7
                 /\ \A k \in 0..5 : LastSix[k] = EntryByte(d.fifo_entry, k))
          /\ (d.fifo_re = 0 /\ d'.fifo_re = 1) => d.fifo_byte_sent = 0
          /\ (d.fifo_byte_sent # 0 /\ d'.fifo_byte_sent = 0) => d.fifo_byte_sent = 7 ]_vars

\* the entries the FIFO holds: the inner queue and the output stage
Stored == {d.q[i] : i \in 1..Len(d.q)} \cup (IF d.readable = 1 THEN {d.dout} ELSE {})

\* the sample-load engine has finished with the k-th injection: soc2ip_we
\* has been high for at least n - 1 ticks
Filled(k) == h.ninj = k /\ pads.we = 1 /\ h.gap >= h.per - 1

\* C12: starting from an empty FIFO in latest-saved (non-stream) mode, after
\* capacity + 1 = 171 injections with no pops the FIFO level is the capacity
\* 170, STATUS bit 3 (overrun) is set and the 171st sample is not retained.
C12_Overrun ==
    (Filled(FIFO_DEPTH + 1) /\ ~StreamMode)
    => /\ FifoLevel = FIFO_DEPTH
       /\ Bit(d.STATUS, 3) = 1
       /\ <<FIFO_DEPTH + 1, 0, 0>> \notin Stored

\* a write-enable rising edge reaches the idle sample-load engine while the
\* mode is not stream and the FIFO is not writable
Dropped == d.fstate = "IDLE" /\ we_r /\ ~StreamMode /\ ~Writable

\* C14: a write-enable rising edge in non-stream mode with the FIFO not
\* writable issues no push: the engine stays in IDLE, the write strobe stays
\* low, and the FIFO level and its entries are unchanged, also once the
\* engine has had the time of a complete push.
C14_DropWhenFull ==
    [][ /\ Dropped => (/\ d'.fstate = "IDLE"
                       /\ d'.fifo_we = 0
                       /\ d'.q = d.q
                       /\ d'.readable = d.readable
                       /\ d'.dout = d.dout)
        /\ (Filled(FIFO_DEPTH + 2) /\ ~StreamMode)
           => (/\ FifoLevel = FIFO_DEPTH + 1
               /\ <<FIFO_DEPTH + 2, 0, 0>> \notin Stored
               /\ d'.q = d.q) ]_vars

C14_Witness ==
    /\ Filled(FIFO_DEPTH + 2)
    /\ ~StreamMode
    /\ ~Writable
    /\ d.fstate = "IDLE"
    /\ d.fifo_we = 0
    /\ <<FIFO_DEPTH + 1, 0, 0>> \in Stored

\* C15: after every write-enable rising edge seen by the sample-load engine
\* the done flag is cleared, and it is 1 again with the engine back in IDLE
\* once write-enable has been high for n - 1 ticks or any longer, in both
\* FIFO modes and for every fill level.
C15_DoneAfterEdge ==
    [][ /\ (d.fstate = "IDLE" /\ we_r) => d'.done = 0
        /\ (pads.we = 1 /\ h.gap >= h.per - 1) => (d.done = 1 /\ d.fstate = "IDLE") ]_vars

\* C13: whenever the buffered sample count (3 x FIFO level) is at least the
\* threshold {FIFO_CONTROL[3], FIFO_SAMPLES}, STATUS bit 2 (watermark) is 1
\* on the next tick; once 1, bit 2 returns to 0 only on a tick at which
\* 3 x the drain counter is at least the threshold.
C13_Watermark ==
    [][ /\ 3 * FifoLevel >= fifo_samples => Bit(d'.STATUS, 2) = 1
        /\ (Bit(d.STATUS, 2) = 1 /\ Bit(d'.STATUS, 2) = 0)
           => 3 * d.fifo_entry_read_cnt >= fifo_samples ]_vars

\* the line an interrupt map register m asks for: INTMAPn[2] AND STATUS[2],
\* inverted when INTMAPn[7] is 1
WantedLine(m) ==
    LET both == IF Bit(m, 2) = 1 /\ Bit(d.STATUS, 2) = 1 THEN 1 ELSE 0
    IN  IF Bit(m, 7) = 0 THEN both ELSE 1 - both

\* C18: at every tick each interrupt line n in {1, 2} equals
\* INTMAPn[2] AND STATUS[2] when INTMAPn[7] is 0 and the negation of it when
\* INTMAPn[7] is 1; line 1 is a function of INTMAP1 and STATUS alone and
\* line 2 of INTMAP2 and STATUS alone.
C18_InterruptLines ==
    /\ int1 = WantedLine(d.regs[INTMAP1])
    /\ int2 = WantedLine(d.regs[INTMAP2])

\* the watermark is set, INTMAP1 enables it active low and INTMAP2 active
\* high: line 1 is low and line 2 is high
C18_Witness ==
    /\ Bit(d.STATUS, 2) = 1
    /\ d.regs[INTMAP1] = 132
    /\ d.regs[INTMAP2] = 4
    /\ int1 = 0
    /\ int2 = 1

\* the host finished a byte two ticks ago: its eighth falling edge of sck
\* since chip-select assertion or since the previous byte
ByteDone == pads.csn = 0 /\ pads.sck = 0 /\ h.idx >= 2 /\ h.bit = 0 /\ h.gap = 2

C17_MisoDriven ==
    /\ miso_oe = (IF pads.csn = 0 THEN 1 ELSE 0)
    /\ miso = (d.tx_buf \div 128) % 2

C17_Witness ==
    /\ pads.csn = 0
    /\ miso_oe = 1
    /\ d.tx_buf = 82 * 2
    /\ miso = 1

\* base periods between two toggles at rate selector k: 32 / 2^k for k in
\* 0..4, one for k in 5..7
TogglePeriod(k) == IF k <= 4 THEN 32 \div (2 ^ k) ELSE 1

\* system ticks since the last toggle, as the counters of r hold them
Phase(r) == IF odr >= 5 THEN r.prescaler ELSE r.ocnt * BasePeriod + r.prescaler

\* the divided output rose at the last tick
JustRose(r) == r.fout = 1 /\ r.edt_cnt % 2 = 0

C20_OdrDisabled ==
    [][ (d.ena = 0 /\ d.regs[POWER_CTL] % 4 # 2)
        => /\ d'.ena = 0
           /\ d'.fout = 0
           /\ ~Rising(d'.edt_cnt)
           /\ d'.prescaler = d.prescaler
           /\ d'.ocnt = d.ocnt ]_vars

\* measurement was stopped in the middle of a base period of rate 3
C20_Witness ==
    /\ h.ntx = 2
    /\ d.ena = 0
    /\ d.regs[POWER_CTL] = 0
    /\ odr = 3
    /\ d.fout = 0
    /\ foutr = 0
    /\ d.prescaler = 7
    /\ d.ocnt = 2

\* the entries the FIFO of r holds, oldest first: the output stage, then
\* the inner queue
Contents(r) == (IF r.readable = 1 THEN <<r.dout>> ELSE <<>>) \o r.q

\* the write strobe of the sample-load engine is accepted at this tick
PushNow == d.fifo_we = 1 /\ Writable

\* the read strobe of the protocol engine removes an entry at this tick
PopNow == d.fifo_re = 1 /\ d.readable = 1

\* C21: in every reachable state the FIFO level lies in 0..170; at every
\* tick it grows by one for an accepted push and shrinks by one for a pop,
\* so it is the number of accepted pushes minus the number of pops; a push
\* and a pop in the same tick both take effect: the level is unchanged, the
\* oldest entry is gone, the pushed one is the newest and the others keep
\* their order.
C21_FifoLevel ==
    [][ /\ FifoLevel \in 0..FIFO_DEPTH
        /\ Len(Contents(d')) = FifoLevel + (IF PushNow THEN 1 ELSE 0) - (IF PopNow THEN 1 ELSE 0)
        /\ (PushNow /\ PopNow)
           => (/\ Len(Contents(d')) = FifoLevel
               /\ Contents(d') = Append(Tail(Contents(d)), d.fifo_din)) ]_vars

\* the newest entry of the FIFO of r
Newest(r) == Contents(r)[Len(Contents(r))]

\* C28: every rising edge of soc2ip_we that occurs while the FIFO is
\* writable or the mode is stream results in exactly one push of the three
\* axis values present at that edge, however close the edges are: at the
\* tick the edge detector reports the edge the engine issues the write
\* strobe with soc2ip_dx/dy/dz as data, the strobe lasts one tick and stores
\* its data as the newest entry, and no strobe rises without an edge.
C28_EveryEdgePushes ==
    [][ /\ (we_r /\ (StreamMode \/ Writable))
           => (d'.fifo_we = 1 /\ d'.fifo_din = pads.smp)
        /\ d.fifo_we = 1
           => (/\ d'.fifo_we = 0
               /\ Len(Contents(d')) >= 1
               /\ Newest(d') = d.fifo_din)
        /\ (d.fifo_we = 0 /\ d'.fifo_we = 1) => we_r ]_vars

\* C22: at chip-select de-assertion the per-transaction state is reset: at
\* a tick at which chip-select is high the count of FIFO bytes already
\* shifted out is 0 on the next tick, so the engine enters READ_FIFO from
\* the command decode with the count at 0 and begins every FIFO read by
\* popping a new entry, also after a transaction that ended in the middle
\* of an entry.
C22_ByteCountReset ==
    [][ /\ pads.csn = 1 => d'.fifo_byte_sent = 0
        /\ (d.state = "CMD_DECODE" /\ d'.state = "READ_FIFO") => d'.fifo_byte_sent = 0 ]_vars

\* C25: the protocol engine asserts the pop strobe only when the FIFO is
\* readable; in a FIFO read on an empty FIFO it pops nothing, the level
\* stays 0 as long as no sample is pushed, and the engine stays in READ_FIFO
\* with the strobe low until an entry is readable or chip-select is
\* de-asserted.
C25_PopOnlyReadable ==
    [][ /\ d.fifo_re = 1 => d.readable = 1
        /\ (d.fifo_re = 0 /\ d'.fifo_re = 1) => d.readable = 1
        /\ (d.state = "READ_FIFO" /\ d.readable = 0 /\ pads.csn = 0)
           => (/\ d'.state = "READ_FIFO"
               /\ d'.fifo_re = 0
               /\ ~PopNow
               /\ Len(Contents(d')) >= FifoLevel) ]_vars

\* chip-select has been high for two ticks or more: a write strobe issued
\* before the de-assertion has reached the register file
Settled == pads.csn = 1 /\ d.csn_cnt = 3

\* C23: every data byte of a register write whose eighth clock falling edge
\* arrives while chip-select is low is committed to its register, however
\* soon after that edge chip-select is de-asserted: once the transaction
\* (0x0A, a, v) with a in 0x20..0x2D is over, register a holds v.
C23_WriteCommitted ==
    (Settled /\ PrevWrite /\ h.prev[2] \in RWRegs) => d.regs[h.prev[2]] = h.prev[3]

\* C24: every entry the protocol engine removes from the FIFO is latched
\* for output, at whatever tick chip-select is de-asserted: the tick after
\* a pop the engine is in READ_FIFO_ENTRY, and from there it latches the
\* FIFO output into fifo_entry with the byte count at 1, so that the six
\* bytes are shifted out in this or a later FIFO read.
C24_PoppedIsLatched ==
    [][ /\ PopNow => d'.state = "READ_FIFO_ENTRY"
        /\ d.state = "READ_FIFO_ENTRY"
           => (d'.fifo_entry = d.dout /\ d'.fifo_byte_sent = 1) ]_vars

\* the host has sent the data byte 0x52 of a write to SOFT_RESET and
\* chip-select is still low
ResetRequested ==
    /\ InFrame(CMD_WRITE)
    /\ Len(h.plan) = 3
    /\ h.plan[2] = SOFT_RESET
    /\ h.plan[3] = RESET_KEY
    /\ h.idx = 4

\* C26: a single host write of 0x52 to SOFT_RESET asserts the register-file
\* reset for exactly one tick: the reset rises only for such a write, it is
\* low again at the next tick, SOFT_RESET then no longer holds 0x52, and the
\* reset stays low until the host writes 0x52 again.
C26_ResetOneTick ==
    [][ /\ (d.reg_reset = 0 /\ d'.reg_reset = 1) => ResetRequested
        /\ d.reg_reset = 1 => d'.reg_reset = 0
        /\ d.reg_reset = 1 => d'.regs[SOFT_RESET] # RESET_KEY ]_vars

\* C27: whenever STATUS bit 2 (watermark) changes from 1 to 0, the host
\* has popped at least ceil(threshold / 3) FIFO entries since the bit last
\* changed from 0 to 1, pops at the two ticks of change included; threshold
\* is the 9-bit value {FIFO_CONTROL[3], FIFO_SAMPLES}.
C27_DrainedBeforeClear ==
    [][ (Bit(d.STATUS, 2) = 1 /\ Bit(d'.STATUS, 2) = 0)
        => 3 * d'.popped >= fifo_samples ]_vars

\* the edge detector reports the last falling edge of a byte the host has
\* sent since chip-select assertion, with chip-select low
EighthEdge == pads.csn = 0 /\ sck_f /\ h.idx >= 2 /\ h.bit = 0

\* C29: clock edges that occur while chip-select is high have no effect on
\* the next transaction: a byte-received event is raised exactly for the
\* eighth, sixteenth, ... falling edge after chip-select assertion and for
\* no other edge, whatever the clock did while chip-select was high.
C29_IdleClockIgnored ==
    [][ d'.rxc = (IF EighthEdge THEN 1 ELSE 0) ]_vars

\* C30: in every reachable state the 16-bit value
\* FIFO_ENTRIES_H:FIFO_ENTRIES_L (registers 0x0D and 0x0C) that a register
\* read returns equals 3 x the FIFO level, without truncation.
C30_EntriesExact == RegRead(12) + 256 * RegRead(13) = 3 * FifoLevel

\* C31: at every tick after the first, STATUS bit 0 equals STATUS bit 1,
\* both equal (FIFO level >= 1) on the previous tick, and STATUS bit 3
\* equals (FIFO level >= 170) on the previous tick, so that the overrun bit
\* clears by itself once the level drops below the capacity.
C31_StatusBits ==
    [][ /\ Bit(d'.STATUS, 0) = Bit(d'.STATUS, 1)
        /\ Bit(d'.STATUS, 1) = (IF FifoLevel >= 1 THEN 1 ELSE 0)
        /\ Bit(d'.STATUS, 3) = (IF FifoLevel >= FIFO_DEPTH THEN 1 ELSE 0) ]_vars

\* the FIFO was filled to 170 entries, the host popped one, and the overrun
\* bit is 0 again
C31_Witness ==
    /\ h.ninj = FIFO_DEPTH
    /\ InFrame(CMD_FIFO)
    /\ FifoLevel = FIFO_DEPTH - 1
    /\ d.fifo_entry_read_cnt = 1
    /\ Bit(d.STATUS, 3) = 0
    /\ Bit(d.STATUS, 0) = 1

\* C32: in non-stream mode the full status the CPU reads is 1 exactly when
\* a write-enable rising edge at that tick would be dropped, that is when
\* the FIFO is not writable; in stream mode it is never 1.
C32_FullStatus ==
    IF StreamMode THEN soc2ip_full = 0 ELSE (soc2ip_full = 1 <=> ~Writable)

\* C33: in stream mode a push attempted while the FIFO is full (its level
\* is at least the capacity 170) leaves the level and the buffered entries
\* unchanged: the new sample is discarded and no older entry is overwritten;
\* the sample-load engine raises the done flag all the same.
C33_StreamFull ==
    [][ (StreamMode /\ FifoLevel >= FIFO_DEPTH)
        => /\ d.fifo_we = 1 => Contents(d') = Contents(d)
           /\ d.fstate = "FIFO_WRITE" => d'.done = 1 ]_vars

\* the host is writing a value other than 0x52 to SOFT_RESET (0x1F)
OtherValue ==
    /\ InFrame(CMD_WRITE)
    /\ Len(h.plan) = 3
    /\ h.plan[2] = SOFT_RESET
    /\ h.plan[3] # RESET_KEY

\* C34: the register-file reset and the system-wide reset request are
\* asserted only after the host has written exactly 0x52 to address 0x1F:
\* SOFT_RESET takes the value 0x52 and reg.reset rises only in such a
\* write, reg.reset is never raised while SOFT_RESET holds another value,
\* and sys_rst rises only under reg.reset.  A write of any other value to
\* 0x1F triggers no reset and changes no host-readable register: the
\* configuration registers, STATUS and the FIFO level stay as they were.
C34_ResetOnlyByKey ==
    [][ /\ (d.regs[SOFT_RESET] # RESET_KEY /\ d'.regs[SOFT_RESET] = RESET_KEY)
           => ResetRequested
        /\ (d.reg_reset = 0 /\ d'.reg_reset = 1) => ResetRequested
        /\ d.regs[SOFT_RESET] # RESET_KEY => d'.reg_reset = 0
        /\ (d.sys_rst = 0 /\ d'.sys_rst = 1) => d.reg_reset = 1
        /\ OtherValue
           => /\ d'.reg_reset = 0
              /\ d'.sys_rst = 0
              /\ \A a \in RWRegs : d'.regs[a] = d.regs[a]
              /\ d'.STATUS = d.STATUS
              /\ Len(d'.q) + d'.readable = FifoLevel ]_vars

\* the byte 0x10 written to 0x1F has been stored and no reset is asserted
C34_Witness ==
    /\ OtherValue
    /\ d.regs[SOFT_RESET] = h.plan[3]
    /\ d.reg_reset = 0
    /\ d.sys_rst = 0
    /\ d.bus_w = 0

\* C35: the ODR interrupt trigger toward the SoC is 1 at a tick only if,
\* on the previous tick, the sample-ready pulse foutr was 1 and the
\* measurement-enable bit soc2ip_st was 1.
C35_IrqOnlyOnPulse ==
    [][ d'.irq = 1 => (foutr = 1 /\ pads.st = 1) ]_vars

\* for one detector with registers c now and c2 after the tick, whose input
\* was `was` one tick ago and is `is` now: the outputs after the tick follow
\* the last two input levels, exclude each other and do not repeat
EdgeOk(c, c2, was, is) ==
    /\ Rising(c2) <=> (was = 0 /\ is = 1)
    /\ Falling(c2) <=> (was = 1 /\ is = 0)
    /\ ~(Rising(c2) /\ Falling(c2))
    /\ Rising(c) => ~Rising(c2)
    /\ Falling(c) => ~Falling(c2)

\* C36: for each edge detector of the core (clock, chip-select and
\* write-enable) the rising output is 1 at tick t iff the input was 0 at
\* t-2 and 1 at t-1, and the falling output is 1 at tick t iff the input was
\* 1 at t-2 and 0 at t-1; the two outputs are never 1 together and neither
\* is 1 on two consecutive ticks.
C36_EdgeOutputs ==
    [][ d.seen.valid = 1
        => /\ EdgeOk(d.sck_cnt, d'.sck_cnt, d.seen.sck, pads.sck)
           /\ EdgeOk(d.csn_cnt, d'.csn_cnt, d.seen.csn, pads.csn)
           /\ EdgeOk(d.we_cnt, d'.we_cnt, d.seen.we, pads.we) ]_vars

\* the rising output of the clock detector is 1 for a clock pulse one tick
\* wide, after the write-enable detector has started a push
C36_Witness ==
    /\ Rising(d.sck_cnt)
    /\ d.seen.sck = 1
    /\ pads.sck = 0
    /\ d.done = 1

\* the line differs from its surrounding value for exactly this tick
Glitch(was, is, next) == d.seen.valid = 1 /\ was # is /\ next = was

\* C37: a glitch of one system clock cycle on a sampled line (the line
\* differs from its surrounding value for exactly one tick) produces no
\* rising event and no falling event.
C37_GlitchIgnored ==
    [][ /\ Glitch(d.seen.sck, pads.sck, pads'.sck)
           => ~Rising(d'.sck_cnt) /\ ~Falling(d'.sck_cnt)
        /\ Glitch(d.seen.csn, pads.csn, pads'.csn)
           => ~Rising(d'.csn_cnt) /\ ~Falling(d'.csn_cnt)
        /\ Glitch(d.seen.we, pads.we, pads'.we)
           => ~Rising(d'.we_cnt) /\ ~Falling(d'.we_cnt) ]_vars

\* the k-th data byte of the register write pl is the byte v for address a
WrittenBy(pl, k, a, v) ==
    /\ k >= 1
    /\ Len(pl) >= 2 + k
    /\ pl[1] = CMD_WRITE
    /\ a = (pl[2] + k - 1) % 256
    /\ v = pl[2 + k]

\* register a takes at this tick the byte the host has just sent for it: the
\* last byte of the running write, or the last byte of the write that ended
\* with the chip-select de-assertion before
HostWrites(a) ==
    \/ WrittenBy(h.plan, DataSent, a, d'.regs[a])
    \/ pads.csn = 1 /\ WrittenBy(h.prev, Len(h.prev) - 2, a, d'.regs[a])

\* C38: a read/write configuration register (0x20..0x2D) changes value only
\* through a host write addressed to it or a soft reset; sample injection,
\* FIFO reads, register reads, ODR pulses and status updates leave every
\* configuration register unchanged.
C38_ConfigKept ==
    [][ \A a \in RWRegs :
            d'.regs[a] # d.regs[a]
            => \/ d.reg_reset = 1 /\ d'.regs[a] = PowerOn[a]
               \/ HostWrites(a) ]_vars

\* the burst has been written, a sample was injected and an entry popped in
\* a FIFO read, and a sample-ready pulse is raised with the watermark set
C38_Witness ==
    /\ h.ntx = 2
    /\ InFrame(CMD_FIFO)
    /\ h.ninj >= 1
    /\ d.popped >= 1
    /\ foutr = 1
    /\ Bit(d.STATUS, 2) = 1
    /\ \A k \in 1..5 : d.regs[FIFO_SAMPLES + k - 1] = KeepWrite[2 + k]

\* C39: the read strobe and the write strobe of the register file are
\* never asserted in the same tick, in any reachable state of the protocol
\* engine, including when a new command is decoded within the same
\* chip-select assertion after a burst has ended.
C39_StrobesExclusive == ~(d.bus_r = 1 /\ d.bus_w = 1)

\* the write strobe of a write command that follows, in the same chip-select
\* assertion, a read burst that ended at 0x2D
C39_Witness ==
    /\ InFrame(CMD_READ)
    /\ h.plan[2] = LAST_REG
    /\ d.bus_w = 1
    /\ d.bus_r = 0
    /\ d.bus_addr = 32
    /\ d.bus_dw = 16

====
